---- MODULE Spec2Model ----
(***************************************************************************)
(* Mini-AES: a single-round 2x2 cipher over GF(2^3) (src/mini_aes.py) and  *)
(* its text/binary/hex codec (src/utils.py).                               *)
(*                                                                         *)
(* Representation.  A Python str is a sequence of one-character strings,   *)
(* so "011" is <<"0","1","1">>.  A Python int (arbitrary precision) is its *)
(* canonical binary numeral: the sequence of its bits, most significant    *)
(* first, without leading zeros; 0 is <<>>.  Characters of a plaintext are *)
(* code points (naturals), which is what ord() and chr() exchange.         *)
(***************************************************************************)
EXTENDS Integers, Sequences, FiniteSets, TLC

VARIABLES pc, a, b, out, matrix, key, state, plaintext, ciphertext,
          recovered, error, choice, screen

vars == <<pc, a, b, out, matrix, key, state, plaintext, ciphertext,
          recovered, error, choice, screen>>

-----------------------------------------------------------------------------
(* Python built-ins used by the source                                     *)

Min(x, y) == IF x <= y THEN x ELSE y

\* s[i:j] with 0-based i, j (clamped to the string, as Python slices are)
Slice(s, i, j) == SubSeq(s, i + 1, Min(j, Len(s)))

\* s[i:]
SliceFrom(s, i) == SubSeq(s, i + 1, Len(s))

RECURSIVE Repeat(_, _)
Repeat(c, n) == IF n <= 0 THEN <<>> ELSE <<c>> \o Repeat(c, n - 1)

\* str.zfill(width) / the '0<width>' fill of format(): pad on the left
Zfill(s, width) == Repeat("0", width - Len(s)) \o s

\* str.ljust(width, '0'): pad on the right
Ljust(s, width) == s \o Repeat("0", width - Len(s))

\* the bits of an int without its leading zeros
RECURSIVE Canon(_)
Canon(v) == IF v = <<>> THEN <<>>
            ELSE IF Head(v) = 0 THEN Canon(Tail(v)) ELSE v

HexLower == <<"0","1","2","3","4","5","6","7","8","9","a","b","c","d","e","f">>
HexUpper == <<"0","1","2","3","4","5","6","7","8","9","A","B","C","D","E","F">>

\* the value of one digit character, or -1 when it is no digit at all
DigitValue(c) ==
    IF \E i \in 1..16 : HexLower[i] = c
    THEN (CHOOSE i \in 1..16 : HexLower[i] = c) - 1
    ELSE IF \E i \in 1..16 : HexUpper[i] = c
    THEN (CHOOSE i \in 1..16 : HexUpper[i] = c) - 1
    ELSE -1

\* a natural number as an int
RECURSIVE NatBits(_)
NatBits(n) == IF n = 0 THEN <<>> ELSE NatBits(n \div 2) \o <<n % 2>>

\* an int as a natural number (used only on values of at most 12 bits)
RECURSIVE BitsNat(_)
BitsNat(v) == IF v = <<>> THEN 0
              ELSE 2 * BitsNat(SubSeq(v, 1, Len(v) - 1)) + v[Len(v)]

\* one digit of base 2 (1 bit) or base 16 (4 bits)
DigitBits(c, base) ==
    LET n == NatBits(DigitValue(c))
        w == IF base = 2 THEN 1 ELSE 4
    IN  [i \in 1..(w - Len(n)) |-> 0] \o n

\* int(s, base) raises ValueError on the empty string and on a character
\* that is no digit of the base (input here holds no sign, blank, prefix
\* or underscore)
IntRaises(s, base) ==
    \/ Len(s) = 0
    \/ \E i \in 1..Len(s) : DigitValue(s[i]) < 0 \/ DigitValue(s[i]) >= base

RECURSIVE DigitsBits(_, _)
DigitsBits(s, base) ==
    IF s = <<>> THEN <<>>
    ELSE DigitBits(Head(s), base) \o DigitsBits(Tail(s), base)

\* int(s, base), where it does not raise
PyInt(s, base) == Canon(DigitsBits(s, base))

\* x ^ y on ints
Xor(x, y) ==
    LET n  == IF Len(x) >= Len(y) THEN Len(x) ELSE Len(y)
        xx == [i \in 1..(n - Len(x)) |-> 0] \o x
        yy == [i \in 1..(n - Len(y)) |-> 0] \o y
    IN  Canon([i \in 1..n |-> IF xx[i] = yy[i] THEN 0 ELSE 1])

\* format(v, 'b'): the shortest binary numeral, "0" for zero
Bin(v) == IF v = <<>> THEN <<"0">>
          ELSE [i \in 1..Len(v) |-> IF v[i] = 1 THEN "1" ELSE "0"]

\* format(v, '0<width>b'): at least width digits
FormatBin(v, width) == Zfill(Bin(v), width)

\* hex(v)[2:]: the shortest lowercase hexadecimal numeral, "0" for zero
Hex(v) ==
    IF v = <<>> THEN <<"0">>
    ELSE LET n == (Len(v) + 3) \div 4
             p == [i \in 1..(4 * n - Len(v)) |-> 0] \o v
         IN  [i \in 1..n |-> HexLower[BitsNat(SubSeq(p, 4 * i - 3, 4 * i)) + 1]]

-----------------------------------------------------------------------------
(* src/mini_aes.py: S-Box                                                  *)

\* S_BOX with the images of 2 and 3 exchanged (still a permutation)
S_BOX_swapped ==
    << << <<"0","0","0">>, <<"0","0","0">> >>,
       << <<"0","0","1">>, <<"0","0","1">> >>,
       << <<"0","1","0">>, <<"1","1","0">> >>,
       << <<"0","1","1">>, <<"1","0","1">> >>,
       << <<"1","0","0">>, <<"1","1","1">> >>,
       << <<"1","0","1">>, <<"0","1","0">> >>,
       << <<"1","1","0">>, <<"0","1","1">> >>,
       << <<"1","1","1">>, <<"1","0","0">> >> >>

\* the dict literal, as its items in insertion order
S_BOX ==
    << << <<"0","0","0">>, <<"0","0","0">> >>,
       << <<"0","0","1">>, <<"0","0","1">> >>,
       << <<"0","1","0">>, <<"1","0","1">> >>,
       << <<"0","1","1">>, <<"1","1","0">> >>,
       << <<"1","0","0">>, <<"1","1","1">> >>,
       << <<"1","0","1">>, <<"0","1","0">> >>,
       << <<"1","1","0">>, <<"0","1","1">> >>,
       << <<"1","1","1">>, <<"1","0","0">> >> >>

\* {v: k for k, v in S_BOX.items()}
INVERSE_S_BOX == [i \in 1..Len(S_BOX) |-> <<S_BOX[i][2], S_BOX[i][1]>>]

\* box[k]: the item stored last under k
Lookup(box, k) ==
    LET hits == {i \in 1..Len(box) : box[i][1] = k}
    IN  box[CHOOSE i \in hits : \A j \in hits : j <= i][2]

-----------------------------------------------------------------------------
(* src/mini_aes.py: GF(2^3) arithmetic                                     *)

gf_add(x, y) == FormatBin(Xor(PyInt(x, 2), PyInt(y, 2)), 3)

\* gf_multiply_by_2 reducing by 101 (x^2 + 1) instead of 011
gf_multiply_by_2_wrong_poly(value) ==
    LET shifted == SliceFrom(value, 1) \o <<"0">>
    IN  IF value[1] = "1"
        THEN FormatBin(Xor(PyInt(shifted, 2), <<1, 0, 1>>), 3)
        ELSE shifted

gf_multiply_by_2(value) ==
    LET shifted == SliceFrom(value, 1) \o <<"0">>
    IN  IF value[1] = "1"
        THEN FormatBin(Xor(PyInt(shifted, 2), <<1, 1>>), 3)
        ELSE shifted

gf_multiply_by_4(value) == gf_multiply_by_2(gf_multiply_by_2(value))

-----------------------------------------------------------------------------
(* src/utils.py: block <-> matrix                                          *)

block_to_matrix(block) ==
    LET cells == [i \in 1..4 |-> Slice(block, 3 * (i - 1), 3 * i)]
    IN  << <<cells[1], cells[2]>>, <<cells[3], cells[4]>> >>

matrix_to_block(m) == m[1][1] \o m[1][2] \o m[2][1] \o m[2][2]

-----------------------------------------------------------------------------
(* src/mini_aes.py: AES transformations                                    *)

sub_bytes(m, inverse) ==
    LET box == IF inverse THEN INVERSE_S_BOX ELSE S_BOX
    IN  [i \in 1..2 |-> [j \in 1..2 |-> Lookup(box, m[i][j])]]

\* np.roll(row, shift): the element at i moves to i + shift, cyclically
Roll(row, shift) ==
    [i \in 1..Len(row) |-> row[((i - 1 - shift) % Len(row)) + 1]]

shift_rows(m, inverse) ==
    LET direction == IF inverse THEN 1 ELSE -1
    IN  <<m[1], Roll(m[2], direction)>>

\* mix_columns whose inverse branch has the coefficients 2 and 4 exchanged
mix_columns_swapped(m, inverse) ==
    LET ma == m[1][1]
        mb == m[1][2]
        mc == m[2][1]
        md == m[2][2]
    IN  IF ~inverse
        THEN << << gf_add(ma, gf_multiply_by_2(mb)),
                   gf_add(gf_multiply_by_2(ma), mb) >>,
                << gf_add(mc, gf_multiply_by_2(md)),
                   gf_add(gf_multiply_by_2(mc), md) >> >>
        ELSE << << gf_add(gf_multiply_by_4(ma), gf_multiply_by_2(mb)),
                   gf_add(gf_multiply_by_2(ma), gf_multiply_by_4(mb)) >>,
                << gf_add(gf_multiply_by_4(mc), gf_multiply_by_2(md)),
                   gf_add(gf_multiply_by_2(mc), gf_multiply_by_4(md)) >> >>

mix_columns(m, inverse) ==
    LET ma == m[1][1]
        mb == m[1][2]
        mc == m[2][1]
        md == m[2][2]
    IN  IF ~inverse
        THEN << << gf_add(ma, gf_multiply_by_2(mb)),
                   gf_add(gf_multiply_by_2(ma), mb) >>,
                << gf_add(mc, gf_multiply_by_2(md)),
                   gf_add(gf_multiply_by_2(mc), md) >> >>
        ELSE << << gf_add(gf_multiply_by_2(ma), gf_multiply_by_4(mb)),
                   gf_add(gf_multiply_by_4(ma), gf_multiply_by_2(mb)) >>,
                << gf_add(gf_multiply_by_2(mc), gf_multiply_by_4(md)),
                   gf_add(gf_multiply_by_4(mc), gf_multiply_by_2(md)) >> >>

add_round_key(m, k) ==
    LET flat  == matrix_to_block(m)
        xored == FormatBin(Xor(PyInt(flat, 2), PyInt(k, 2)), 12)
    IN  block_to_matrix(xored)

encrypt_block(m, k) ==
    add_round_key(mix_columns(shift_rows(sub_bytes(m, FALSE), FALSE), FALSE), k)

\* decrypt_block applying the encrypt coefficients of MixColumns
decrypt_block_forward_mix(m, k) ==
    sub_bytes(shift_rows(mix_columns(add_round_key(m, k), FALSE), TRUE), TRUE)

decrypt_block(m, k) ==
    sub_bytes(shift_rows(mix_columns(add_round_key(m, k), TRUE), TRUE), TRUE)

-----------------------------------------------------------------------------
(* Input domains                                                           *)

Bit == {"0", "1"}

\* the 8 field elements as 3-bit strings
Cells == {<<x, y, z>> : x \in Bit, y \in Bit, z \in Bit}

\* all 4096 states
Matrices == {<< <<w, x>>, <<y, z>> >> : w \in Cells, x \in Cells,
                                        y \in Cells, z \in Cells}

\* the keys of src/examples.py, and the all-zero and all-one keys
Keys == { <<"0","1","0","1","0","0","1","1","1","1","0","0">>,
          <<"1","1","0","0","1","1","0","0","1","1","0","0">>,
          <<"1","0","1","0","1","0","1","0","1","0","1","0">>,
          <<"1","1","1","0","0","0","1","1","1","0","0","0">>,
          <<"0","0","0","1","1","1","0","0","0","1","1","1">>,
          <<"0","0","0","0","0","0","0","0","0","0","0","0">>,
          <<"1","1","1","1","1","1","1","1","1","1","1","1">> }

None == <<>>

-----------------------------------------------------------------------------
(* SpecField: the field arithmetic and the S-Box on all pairs of elements  *)

InitField ==
    /\ pc = "field"
    /\ a \in Cells
    /\ b \in Cells
    /\ out = None
    /\ matrix = None /\ key = None /\ state = None
    /\ plaintext = None /\ ciphertext = None /\ recovered = None
    /\ error = "none" /\ choice = None /\ screen = None

FieldFrame == UNCHANGED <<a, b, matrix, key, state, plaintext, ciphertext,
                          recovered, error, choice, screen>>

GfAdd ==
    /\ pc = "field"
    /\ out' = gf_add(a, b)
    /\ pc' = "gf_add"
    /\ FieldFrame

GfMultiplyBy2 ==
    /\ pc = "field"
    /\ out' = gf_multiply_by_2(a)
    /\ pc' = "gf_multiply_by_2"
    /\ FieldFrame

GfMultiplyBy4 ==
    /\ pc = "field"
    /\ out' = gf_multiply_by_4(a)
    /\ pc' = "gf_multiply_by_4"
    /\ FieldFrame

SBoxLookup ==
    /\ pc = "field"
    /\ out' = Lookup(S_BOX, a)
    /\ pc' = "S_BOX"
    /\ FieldFrame

InverseSBoxLookup ==
    /\ pc = "S_BOX"
    /\ out' = Lookup(INVERSE_S_BOX, out)
    /\ pc' = "INVERSE_S_BOX"
    /\ FieldFrame

NextField ==
    \/ GfAdd
    \/ GfMultiplyBy2
    \/ GfMultiplyBy4
    \/ SBoxLookup
    \/ InverseSBoxLookup

SpecField == InitField /\ [][NextField]_vars

-----------------------------------------------------------------------------
(* SpecBlock: one block through the round, on all 4096 states              *)

InitBlock ==
    /\ pc = "block"
    /\ matrix \in Matrices
    /\ key \in Keys
    /\ state = matrix
    /\ a = None /\ b = None /\ out = None
    /\ plaintext = None /\ ciphertext = None /\ recovered = None
    /\ error = "none" /\ choice = None /\ screen = None

BlockFrame == UNCHANGED <<a, b, out, matrix, key, plaintext, ciphertext,
                          recovered, error, choice, screen>>

EncryptBlock ==
    /\ pc = "block"
    /\ state' = encrypt_block(state, key)
    /\ pc' = "encrypt_block"
    /\ BlockFrame

DecryptBlock ==
    /\ pc = "encrypt_block"
    /\ state' = decrypt_block(state, key)
    /\ pc' = "decrypt_block"
    /\ BlockFrame

MixColumns ==
    /\ pc = "block"
    /\ state' = mix_columns(state, FALSE)
    /\ pc' = "mix_columns"
    /\ BlockFrame

InvMixColumns ==
    /\ pc = "mix_columns"
    /\ state' = mix_columns(state, TRUE)
    /\ pc' = "inv_mix_columns"
    /\ BlockFrame

NextBlock ==
    \/ EncryptBlock
    \/ DecryptBlock
    \/ MixColumns
    \/ InvMixColumns

SpecBlock == InitBlock /\ [][NextBlock]_vars

-----------------------------------------------------------------------------
(* SpecKey: validate_key on strings around the valid keys                  *)

\* validate_key with the length test "< 12" instead of "!= 12"
validate_key_raises_short_only(k) ==
    Len(k) < 12 \/ ~(\A i \in 1..Len(k) : k[i] \in {"0", "1"})

\* validate_key(key) raises ValueError
validate_key_raises(k) ==
    Len(k) # 12 \/ ~(\A i \in 1..Len(k) : k[i] \in {"0", "1"})

\* the longest string handed to validate_key
MaxKeyLen == 13

\* characters that are no binary digit
NonBinary == {"2", "a", " "}

\* a valid key, cut short, extended, or with one position overwritten
KeyCandidates ==
    UNION { {k} \cup {SubSeq(k, 1, n) : n \in 0..11}
                \cup {k \o Repeat(c, n) : c \in {"0", "1"}, n \in 1..(MaxKeyLen - 12)}
                \cup {[k EXCEPT ![i] = c] : i \in 1..12, c \in NonBinary}
            : k \in Keys }

InitKey ==
    /\ pc = "key"
    /\ key \in KeyCandidates
    /\ error = "none"
    /\ a = None /\ b = None /\ out = None /\ matrix = None /\ state = None
    /\ plaintext = None /\ ciphertext = None /\ recovered = None
    /\ choice = None /\ screen = None

ValidateKey ==
    /\ pc = "key"
    /\ error' = IF validate_key_raises(key) THEN "ValueError" ELSE "none"
    /\ pc' = "validate_key"
    /\ UNCHANGED <<a, b, out, matrix, key, state, plaintext, ciphertext,
                   recovered, choice, screen>>

NextKey == ValidateKey

SpecKey == InitKey /\ [][NextKey]_vars

-----------------------------------------------------------------------------
(* src/utils.py: conversions                                               *)

RECURSIVE Concat(_)
Concat(ss) == IF ss = <<>> THEN <<>> ELSE Head(ss) \o Concat(Tail(ss))

\* ''.join(format(ord(ch), '08b') for ch in text)
text_to_binary(text) ==
    Concat([i \in 1..Len(text) |-> FormatBin(NatBits(text[i]), 8)])

\* range(0, n, step) has ceil(n / step) elements
RangeLen(n, step) == (n + step - 1) \div step

\* the characters chr(int(byte, 2)) of the 8-bit chunks, as code points
binary_to_text(binary) ==
    [i \in 1..RangeLen(Len(binary), 8) |->
        BitsNat(PyInt(Slice(binary, 8 * (i - 1), 8 * i), 2))]

hex_to_binary(hex_string) ==
    LET bit_length == Len(hex_string) * 4
    IN  FormatBin(PyInt(hex_string, 16), bit_length)

binary_to_hex(binary) == Zfill(Hex(PyInt(binary, 2)), Len(binary) \div 4)

pad_block(block, target_length) == Ljust(block, target_length)

binary_to_blocks(binary, block_size) ==
    [i \in 1..RangeLen(Len(binary), block_size) |->
        LET block == Slice(binary, block_size * (i - 1), block_size * i)
        IN  IF Len(block) < block_size THEN pad_block(block, block_size)
            ELSE block]

text_to_matrices(text) ==
    LET blocks == binary_to_blocks(text_to_binary(text), 12)
    IN  [i \in 1..Len(blocks) |-> block_to_matrix(blocks[i])]

\* matrices_to_hex joining the blocks last to first
matrices_to_hex_reversed(ms) ==
    binary_to_hex(Concat([i \in 1..Len(ms) |->
                             matrix_to_block(ms[Len(ms) + 1 - i])]))

matrices_to_hex(ms) ==
    binary_to_hex(Concat([i \in 1..Len(ms) |-> matrix_to_block(ms[i])]))

hex_to_matrices(hex_string) ==
    LET blocks == binary_to_blocks(hex_to_binary(hex_string), 12)
    IN  [i \in 1..Len(blocks) |-> block_to_matrix(blocks[i])]

matrices_to_text(ms) ==
    binary_to_text(Concat([i \in 1..Len(ms) |-> matrix_to_block(ms[i])]))

-----------------------------------------------------------------------------
(* src/mini_aes.py: multi-block encrypt / decrypt                          *)

\* encrypt(plaintext, key) raises ValueError: from validate_key, or from
\* int(binary, 2) in binary_to_hex when there is no block to join
encrypt_raises(text, k) ==
    \/ validate_key_raises(k)
    \/ IntRaises(Concat([i \in 1..Len(text_to_matrices(text)) |->
                            matrix_to_block(text_to_matrices(text)[i])]), 2)

encrypt(text, k) ==
    LET matrices  == text_to_matrices(text)
        encrypted == [i \in 1..Len(matrices) |-> encrypt_block(matrices[i], k)]
    IN  matrices_to_hex(encrypted)

\* decrypt(ciphertext_hex, key) raises ValueError: from validate_key, or
\* from int(hex_string, 16) in hex_to_binary
decrypt_raises(hex_string, k) ==
    \/ validate_key_raises(k)
    \/ IntRaises(hex_string, 16)

decrypt(hex_string, k) ==
    LET matrices  == hex_to_matrices(hex_string)
        decrypted == [i \in 1..Len(matrices) |-> decrypt_block(matrices[i], k)]
    IN  matrices_to_text(decrypted)

\* str.rstrip('\x00') on code points
RECURSIVE RstripNul(_)
RstripNul(text) ==
    IF text = <<>> THEN <<>>
    ELSE IF text[Len(text)] = 0 THEN RstripNul(SubSeq(text, 1, Len(text) - 1))
    ELSE text

-----------------------------------------------------------------------------
(* SpecCipher: encrypt on bounded plaintexts, decrypt on its ciphertexts   *)
(* and on bounded hexadecimal strings                                      *)

\* the longest plaintext, in characters
MaxTextLen == 3

\* the longest ciphertext entered directly, in hexadecimal digits
MaxHexLen == 4

\* code points: NUL, 'A', the last 8-bit one, the first 9-bit one
CodePoints == {0, 65, 255, 256}

HexChars == {"0", "a", "F"}

Plaintexts == UNION {[1..n -> CodePoints] : n \in 0..MaxTextLen}

HexStrings == UNION {[1..n -> HexChars] : n \in 0..MaxHexLen}

CipherKeys == { <<"1","1","0","0","1","1","0","0","1","1","0","0">>,
                <<"0","0","0","1","1","1","0","0","0","1","1","1">> }

InitCipher ==
    /\ key \in CipherKeys
    /\ \/ pc = "plaintext" /\ plaintext \in Plaintexts /\ ciphertext = None
       \/ pc = "ciphertext" /\ plaintext = None /\ ciphertext \in HexStrings
    /\ recovered = None
    /\ error = "none"
    /\ a = None /\ b = None /\ out = None /\ matrix = None /\ state = None
    /\ choice = None /\ screen = None

CipherFrame == UNCHANGED <<a, b, out, matrix, key, state, plaintext,
                           choice, screen>>

\* ciphertext = encrypt(plaintext, key)
Encrypt ==
    /\ pc = "plaintext"
    /\ IF encrypt_raises(plaintext, key)
       THEN /\ error' = "ValueError"
            /\ pc' = "encrypt_raised"
            /\ UNCHANGED ciphertext
       ELSE /\ ciphertext' = encrypt(plaintext, key)
            /\ pc' = "encrypted"
            /\ UNCHANGED error
    /\ UNCHANGED recovered
    /\ CipherFrame

\* decrypt(ciphertext, key), of a ciphertext encrypt returned
DecryptEncrypted ==
    /\ pc = "encrypted"
    /\ IF decrypt_raises(ciphertext, key)
       THEN /\ error' = "ValueError"
            /\ pc' = "round_trip_raised"
            /\ UNCHANGED recovered
       ELSE /\ recovered' = decrypt(ciphertext, key)
            /\ pc' = "round_trip"
            /\ UNCHANGED error
    /\ UNCHANGED ciphertext
    /\ CipherFrame

\* decrypt(ciphertext, key), of any string of hexadecimal digits
DecryptHex ==
    /\ pc = "ciphertext"
    /\ IF decrypt_raises(ciphertext, key)
       THEN /\ error' = "ValueError"
            /\ pc' = "decrypt_raised"
            /\ UNCHANGED recovered
       ELSE /\ recovered' = decrypt(ciphertext, key)
            /\ pc' = "decrypted"
            /\ UNCHANGED error
    /\ UNCHANGED ciphertext
    /\ CipherFrame

NextCipher ==
    \/ Encrypt
    \/ DecryptEncrypted
    \/ DecryptHex

SpecCipher == InitCipher /\ [][NextCipher]_vars

-----------------------------------------------------------------------------
(* SpecMenu: the interactive session, one action per line the user enters  *)

Whitespace == {" "}

\* str.strip()
RECURSIVE Lstrip(_)
Lstrip(s) == IF s # <<>> /\ Head(s) \in Whitespace THEN Lstrip(Tail(s)) ELSE s

RECURSIVE Rstrip(_)
Rstrip(s) ==
    IF s # <<>> /\ s[Len(s)] \in Whitespace
    THEN Rstrip(SubSeq(s, 1, Len(s) - 1)) ELSE s

Strip(s) == Rstrip(Lstrip(s))

\* str.lower(), on the letters the menu is entered with
Lower(s) ==
    [i \in 1..Len(s) |->
        CASE s[i] = "E" -> "e"
          [] s[i] = "D" -> "d"
          [] s[i] = "Q" -> "q"
          [] OTHER -> s[i]]

\* lines entered at the "> " prompt
MenuLines == { <<"e">>, <<" ", "E">>, <<"d">>, <<"D", " ">>, <<"q">>,
               <<"Q">>, <<"x">>, <<>> }

\* lines entered at the key prompt: two keys (one inside blanks), and
\* strings validate_key rejects
KeyLines ==
    { <<"1","1","0","0","1","1","0","0","1","1","0","0">>,
      <<" ","0","0","0","1","1","1","0","0","0","1","1","1"," ">>,
      <<>>,
      <<"1","1","0","0","1","1","0","0","1","1","0">>,
      <<"1","1","0","0","1","1","0","0","1","1","0","2">> }

\* lines entered at the plaintext prompt, as code points: "", "A", "Aa "
PlaintextLines == { <<>>, <<65>>, <<65, 97, 32>> }

\* lines entered at the ciphertext prompt
CiphertextLines == { <<>>, <<"6","8","1">>, <<" ","0","a","F"," ">>,
                     <<"g","1">>, <<"7">> }

InitMenu ==
    /\ pc = "menu"
    /\ screen = "banner"
    /\ choice = None /\ key = None
    /\ plaintext = None /\ ciphertext = None /\ recovered = None
    /\ error = "none"
    /\ a = None /\ b = None /\ out = None /\ matrix = None /\ state = None

MenuFrame == UNCHANGED <<a, b, out, matrix, state>>

\* choice = input("*  > ").strip().lower() and the branch taken on it
MenuChoice(line) ==
    /\ pc = "menu"
    /\ choice' = Lower(Strip(line))
    /\ IF choice' = <<"e">> THEN pc' = "encrypt_key" /\ UNCHANGED screen
       ELSE IF choice' = <<"d">> THEN pc' = "decrypt_key" /\ UNCHANGED screen
       ELSE IF choice' = <<"q">> THEN pc' = "exited" /\ screen' = "Exiting."
       ELSE pc' = "menu" /\ screen' = "Invalid choice."
    /\ UNCHANGED <<key, plaintext, ciphertext, recovered, error>>
    /\ MenuFrame

\* one pass of prompt_key's loop: the key is returned only if it validates
PromptKey(line) ==
    /\ pc \in {"encrypt_key", "decrypt_key"}
    /\ IF validate_key_raises(Strip(line))
       THEN /\ screen' = "Error: key"
            /\ UNCHANGED <<pc, key>>
       ELSE /\ key' = Strip(line)
            /\ pc' = IF pc = "encrypt_key" THEN "encrypt_text" ELSE "decrypt_text"
            /\ UNCHANGED screen
    /\ UNCHANGED <<choice, plaintext, ciphertext, recovered, error>>
    /\ MenuFrame

\* plaintext = input(...); ciphertext = encrypt(plaintext, key), outside any
\* try: an exception leaves interactive_menu
EnterPlaintext(line) ==
    /\ pc = "encrypt_text"
    /\ plaintext' = line
    /\ IF encrypt_raises(line, key)
       THEN /\ error' = "ValueError"
            /\ pc' = "crashed"
            /\ UNCHANGED <<ciphertext, screen>>
       ELSE /\ ciphertext' = encrypt(line, key)
            /\ screen' = "Ciphertext (hex)"
            /\ pc' = "menu"
            /\ UNCHANGED error
    /\ UNCHANGED <<choice, key, recovered>>
    /\ MenuFrame

\* ciphertext = input(...).strip(); decrypt inside try/except ValueError
EnterCiphertext(line) ==
    /\ pc = "decrypt_text"
    /\ ciphertext' = Strip(line)
    /\ IF decrypt_raises(ciphertext', key)
       THEN /\ screen' = "Error: ciphertext"
            /\ UNCHANGED plaintext
       ELSE /\ plaintext' = decrypt(ciphertext', key)
            /\ screen' = "Plaintext"
    /\ pc' = "menu"
    /\ UNCHANGED <<choice, key, recovered, error>>
    /\ MenuFrame

NextMenu ==
    \/ \E line \in MenuLines : MenuChoice(line)
    \/ \E line \in KeyLines : PromptKey(line)
    \/ \E line \in PlaintextLines : EnterPlaintext(line)
    \/ \E line \in CiphertextLines : EnterCiphertext(line)

SpecMenu == InitMenu /\ [][NextMenu]_vars

-----------------------------------------------------------------------------
(* Reference arithmetic of GF(2^3) = GF(2)[x] / (x^3 + x + 1) on 0..7      *)

RECURSIVE NatXor(_, _)
NatXor(x, y) ==
    IF x = 0 THEN y
    ELSE IF y = 0 THEN x
    ELSE 2 * NatXor(x \div 2, y \div 2) + ((x + y) % 2)

\* the product of two polynomials over GF(2)
RECURSIVE PolyMul(_, _)
PolyMul(x, y) ==
    IF y = 0 THEN 0
    ELSE NatXor(IF y % 2 = 1 THEN x ELSE 0, 2 * PolyMul(x, y \div 2))

\* the remainder modulo x^3 + x + 1 (1011) of a polynomial of degree <= 4
PolyMod(p) ==
    LET q == IF p >= 16 THEN NatXor(p, 22) ELSE p
    IN  IF q >= 8 THEN NatXor(q, 11) ELSE q

FieldMul(x, y) == PolyMod(PolyMul(x, y))

\* the field element a 3-bit string denotes
CellValue(c) ==
    4 * (IF c[1] = "1" THEN 1 ELSE 0) + 2 * (IF c[2] = "1" THEN 1 ELSE 0)
      + (IF c[3] = "1" THEN 1 ELSE 0)

-----------------------------------------------------------------------------
(* Claims on the block cipher and the field                                *)

\* C1: decrypting an encrypted block with the same key gives back the
\* state that was encrypted, for every state and key.
C1_BlockRoundTrip == pc = "decrypt_block" => state = matrix

C1_Witness ==
    /\ pc = "decrypt_block"
    /\ matrix = << << <<"0","1","1">>, <<"0","0","0">> >>,
                   << <<"0","1","0">>, <<"1","1","0">> >> >>
    /\ key = <<"0","1","0","1","0","0","1","1","1","1","0","0">>
    /\ state = matrix

\* C8: the inverse MixColumns undoes MixColumns on every state.
C8_MixColumnsInverse == pc = "inv_mix_columns" => state = matrix

C8_Witness ==
    /\ pc = "inv_mix_columns"
    /\ matrix = << << <<"1","1","1">>, <<"1","0","0">> >>,
                   << <<"0","0","1">>, <<"1","0","1">> >> >>
    /\ state = matrix

\* C9: the S-Box sends 0 to 0 and every nonzero element to its
\* multiplicative inverse in the field, and the inverse S-Box undoes it.
C9_SBoxInverses ==
    /\ pc = "S_BOX" =>
          /\ out \in Cells
          /\ IF CellValue(a) = 0 THEN CellValue(out) = 0
             ELSE FieldMul(CellValue(a), CellValue(out)) = 1
    /\ pc = "INVERSE_S_BOX" => out = a

C9_Witness ==
    /\ pc = "INVERSE_S_BOX"
    /\ a = <<"0","1","1">>
    /\ out = a

\* C10: gf_multiply_by_2 is multiplication by x, and gf_multiply_by_4 by
\* x^2, modulo x^3 + x + 1, and both stay within the 3-bit elements.
C10_MultiplyByX ==
    /\ pc = "gf_multiply_by_2" =>
          out \in Cells /\ CellValue(out) = FieldMul(CellValue(a), 2)
    /\ pc = "gf_multiply_by_4" =>
          out \in Cells /\ CellValue(out) = FieldMul(CellValue(a), 4)

C10_Witness ==
    /\ pc = "gf_multiply_by_4"
    /\ a = <<"1","1","1">>
    /\ out = <<"0","0","1">>

-----------------------------------------------------------------------------
(* Claims on key validation                                                *)

\* C3: validate_key accepts exactly the strings of 12 binary digits; it
\* rejects every shorter string, every longer string and every 12-character
\* string with a non-binary character, whatever its position.
C3_KeyValidation ==
    pc = "validate_key" =>
      /\ error = "none" <=> key \in [1..12 -> Bit]
      /\ Len(key) < 12 => error = "ValueError"
      /\ Len(key) > 12 => error = "ValueError"
      /\ \A i \in 1..12 :
            (Len(key) = 12 /\ key[i] \notin Bit) => error = "ValueError"

C3_Witness ==
    /\ pc = "validate_key"
    /\ Len(key) = 12
    /\ key[12] = "2"
    /\ \A i \in 1..11 : key[i] \in Bit
    /\ error = "ValueError"

-----------------------------------------------------------------------------
(* Claims on the multi-block cipher                                        *)

BitValue(c) == IF c = "1" THEN 1 ELSE 0

\* a bit-stream zero-padded on the right to whole 12-bit blocks
PaddedStream(bits) == bits \o Repeat("0", (12 - (Len(bits) % 12)) % 12)

StreamBlock(stream, i) == SubSeq(stream, 12 * i - 11, 12 * i)

\* the three lowercase hexadecimal digits of a 12-bit block
HexOfBlock(block) ==
    [j \in 1..3 |->
        HexLower[8 * BitValue(block[4 * j - 3]) + 4 * BitValue(block[4 * j - 2])
                 + 2 * BitValue(block[4 * j - 1]) + BitValue(block[4 * j]) + 1]]

\* the four bits of each hexadecimal digit
HexStream(hex_string) ==
    Concat([i \in 1..Len(hex_string) |->
               FormatBin(NatBits(DigitValue(hex_string[i])), 4)])

\* the bits a decoded text stands for, given how many bits were decoded:
\* 8 per character, and what is left for the last one
TextStream(text, total) ==
    Concat([j \in 1..Len(text) |->
               FormatBin(NatBits(text[j]), Min(8, total - 8 * (j - 1)))])

\* plaintexts one edit away: a character replaced, appended or dropped
PlaintextVariants(text) ==
    {[text EXCEPT ![j] = c] : j \in 1..Len(text), c \in CodePoints}
      \cup {text \o <<c>> : c \in CodePoints}
      \cup {SubSeq(text, 1, Len(text) - 1)}

HexVariants(hex_string) ==
    {[hex_string EXCEPT ![j] = c] : j \in 1..Len(hex_string), c \in HexChars}
      \cup {hex_string \o <<c>> : c \in HexChars}
      \cup {SubSeq(hex_string, 1, Len(hex_string) - 1)}

\* C2: decrypt(encrypt(P, K), K) is P followed by null characters only,
\* and stripping the trailing nulls gives back P, for every plaintext P.
C2_TextRoundTrip ==
    /\ pc \notin {"encrypt_raised", "round_trip_raised"}
    /\ pc = "round_trip" =>
          /\ Len(recovered) >= Len(plaintext)
          /\ SubSeq(recovered, 1, Len(plaintext)) = plaintext
          /\ \A j \in (Len(plaintext) + 1)..Len(recovered) : recovered[j] = 0
          /\ RstripNul(recovered) = plaintext

\* C4: with a valid key, encrypt raises on no plaintext and decrypt raises
\* on no string of hexadecimal digits.
C4_NoFailureWithValidKey ==
    /\ (pc = "encrypt_raised") => validate_key_raises(key)
    /\ (pc \in {"decrypt_raised", "round_trip_raised"}) =>
          \/ validate_key_raises(key)
          \/ \E i \in 1..Len(ciphertext) : DigitValue(ciphertext[i]) \notin 0..15

\* C5: encrypt returns lowercase hexadecimal digits, three per 12-bit
\* block, for ceil(8 * n / 12) blocks of a plaintext of n characters.
C5_CiphertextFormat ==
    /\ pc # "encrypt_raised"
    /\ pc = "encrypted" =>
          /\ Len(ciphertext) = 3 * ((8 * Len(plaintext) + 11) \div 12)
          /\ \A i \in 1..Len(ciphertext) :
                \E d \in 1..16 : ciphertext[i] = HexLower[d]
          /\ Len(plaintext) = 3 => Len(ciphertext) = 6

\* C6: the i-th group of three hexadecimal digits of encrypt's output is
\* encrypt_block of the i-th 12-bit block of the padded plaintext bits, so
\* plaintexts that agree on block i have ciphertexts that agree on group i;
\* and the i-th 12 bits decrypt decodes are decrypt_block of the i-th
\* 12-bit block of the ciphertext bits.
C6_BlockIndependence ==
    /\ pc = "encrypted" =>
          LET stream == PaddedStream(text_to_binary(plaintext))
              n      == Len(stream) \div 12
          IN  /\ Len(ciphertext) = 3 * n
              /\ \A i \in 1..n :
                    SubSeq(ciphertext, 3 * i - 2, 3 * i) =
                      HexOfBlock(matrix_to_block(encrypt_block(
                          block_to_matrix(StreamBlock(stream, i)), key)))
              /\ \A q \in PlaintextVariants(plaintext) :
                    LET qstream == PaddedStream(text_to_binary(q))
                        qn      == Len(qstream) \div 12
                        qhex    == encrypt(q, key)
                    IN  \A i \in 1..Min(n, qn) :
                          StreamBlock(qstream, i) = StreamBlock(stream, i) =>
                            /\ ~encrypt_raises(q, key)
                            /\ SubSeq(qhex, 3 * i - 2, 3 * i) =
                                 SubSeq(ciphertext, 3 * i - 2, 3 * i)
    /\ pc \in {"decrypted", "round_trip"} =>
          LET stream == PaddedStream(HexStream(ciphertext))
              n      == Len(stream) \div 12
              bits   == TextStream(recovered, 12 * n)
          IN  /\ Len(bits) = 12 * n
              /\ \A i \in 1..n :
                    StreamBlock(bits, i) =
                      matrix_to_block(decrypt_block(
                          block_to_matrix(StreamBlock(stream, i)), key))
              /\ \A q \in HexVariants(ciphertext) :
                    LET qstream == PaddedStream(HexStream(q))
                        qn      == Len(qstream) \div 12
                        qbits   == TextStream(decrypt(q, key), 12 * qn)
                    IN  \A i \in 1..Min(n, qn) :
                          StreamBlock(qstream, i) = StreamBlock(stream, i) =>
                            /\ ~decrypt_raises(q, key)
                            /\ StreamBlock(qbits, i) = StreamBlock(bits, i)

C6_Witness ==
    /\ pc = "encrypted"
    /\ plaintext = <<65, 255, 0>>
    /\ Len(ciphertext) = 6
    /\ SubSeq(ciphertext, 1, 3) # SubSeq(ciphertext, 4, 6)

-----------------------------------------------------------------------------
(* Claims on the interactive session                                       *)

\* C7: no failure of an encrypt or decrypt request ends the session: it
\* ends only when the user chooses quit.
C7_SessionEndsOnlyOnQuit ==
    /\ pc # "crashed"
    /\ pc = "exited" => choice = <<"q">>

====
